---------------------------- MODULE Spec2Model ----------------------------
(***************************************************************************)
(* htbuilder: the element object model (HtmlTag, HtmlElement) and its      *)
(* serialisation (__str__, _serialize_attrs, _render_children,             *)
(* _clean_name, fragment), modelled from src/htbuilder/__init__.py.        *)
(*                                                                         *)
(* Representation.                                                         *)
(*  - A name (tag name, attribute key) is a sequence of one-character      *)
(*    strings, so that startswith / rstrip / replace / lower are computed  *)
(*    character by character.  Text (attribute values, string children,    *)
(*    rendered markup) is a TLA+ string.                                   *)
(*  - A Python value is a record with a type field t: "str" (field s),     *)
(*    "none", "true", "false", "elem" (field id, a reference to an         *)
(*    HtmlElement), "list" / "tuple" (field items, a sequence of values).  *)
(*  - A dict is a sequence of [k, v] records in insertion order.           *)
(*  - HtmlElement objects live in elems (index = identity).  The dict an   *)
(*    element's _attrs field refers to lives in dicts: address 0 is the    *)
(*    one dict object created for the default value of __init__'s attrs    *)
(*    parameter, address i the dict last allocated for element i by        *)
(*    {**self._attrs, **attrs} (the dict it replaces is garbage, since no  *)
(*    operation copies a reference to it).  _children is only ever         *)
(*    rebound, never mutated in place, so it is held by value.             *)
(***************************************************************************)
EXTENDS Integers, Sequences, FiniteSets, TLC

VARIABLES elems, dicts, last

vars == <<elems, dicts, last>>

\* Bounds of the model.
MaxElems == 2
MaxChildren == 3
MaxNameLen == 5

-----------------------------------------------------------------------------
(* Names *)

div == <<"d", "i", "v">>
img == <<"i", "m", "g">>
IMG == <<"I", "M", "G">>
Img == <<"I", "m", "g">>
html == <<"h", "t", "m", "l">>
under_x == <<"_", "x">>
a_a__ == <<"a", "_", "a", "_", "_">>

\* EMPTY_ELEMENTS
EMPTY_ELEMENTS ==
    { <<"a","r","e","a">>, <<"b","a","s","e">>, <<"b","r">>, <<"c","o","l">>,
      <<"e","m","b","e","d">>, <<"h","r">>, <<"i","m","g">>,
      <<"i","n","p","u","t">>, <<"k","e","y","g","e","n">>, <<"l","i","n","k">>,
      <<"m","e","t","a">>, <<"p","a","r","a","m">>,
      <<"s","o","u","r","c","e">>, <<"t","r","a","c","k">>, <<"w","b","r">>,
      <<"c","i","r","c","l","e">>, <<"l","i","n","e">>, <<"p","a","t","h">>,
      <<"p","o","l","y","g","o","n">>, <<"p","o","l","y","l","i","n","e">>,
      <<"r","e","c","t">> }

\* str.lower on one character
UpperCase ==
    [ A |-> "a", B |-> "b", C |-> "c", D |-> "d", E |-> "e", F |-> "f",
      G |-> "g", H |-> "h", I |-> "i", J |-> "j", K |-> "k", L |-> "l",
      M |-> "m", N |-> "n", O |-> "o", P |-> "p", Q |-> "q", R |-> "r",
      S |-> "s", T |-> "t", U |-> "u", V |-> "v", W |-> "w", X |-> "x",
      Y |-> "y", Z |-> "z" ]

LowerChar(c) == IF c \in DOMAIN UpperCase THEN UpperCase[c] ELSE c

\* str.lower
Lower(name) == [i \in 1..Len(name) |-> LowerChar(name[i])]

\* str.startswith("_")
StartsWithUnderscore(name) == Len(name) > 0 /\ name[1] = "_"

\* rstrip as it would be if it removed one trailing underscore only
RStripOnce(name) ==
    IF Len(name) > 0 /\ name[Len(name)] = "_"
    THEN SubSeq(name, 1, Len(name) - 1)
    ELSE name

\* str.rstrip("_"): every trailing underscore is removed
RECURSIVE RStrip(_)
RStrip(name) ==
    IF Len(name) > 0 /\ name[Len(name)] = "_"
    THEN RStrip(SubSeq(name, 1, Len(name) - 1))
    ELSE name

\* str.replace("_", "-")
ReplaceUnderscores(name) ==
    [i \in 1..Len(name) |-> IF name[i] = "_" THEN "-" ELSE name[i]]

\* the characters of a name as text
RECURSIVE Text(_)
Text(name) == IF name = <<>> THEN "" ELSE Head(name) \o Text(Tail(name))

-----------------------------------------------------------------------------
(* Python values *)

StrV(s) == [t |-> "str", s |-> s]
None == [t |-> "none"]
True == [t |-> "true"]
False == [t |-> "false"]
ElemV(i) == [t |-> "elem", id |-> i]
ListV(items) == [t |-> "list", items |-> items]
TupleV(items) == [t |-> "tuple", items |-> items]

IsSequence(v) == v.t \in {"list", "tuple"}

Range(f) == {f[i] : i \in DOMAIN f}

\* VOIDED_CHILDREN = (None, False, True)
VOIDED_CHILDREN == {None, False, True}

\* the result of a call: err = "" and the value out, or the exception err
Ok(x) == [err |-> "", out |-> x]
Raise(e) == [err |-> e, out |-> ""]

-----------------------------------------------------------------------------
(* more_itertools.collapse, as HtmlElement.__call__ uses it: strings are    *)
(* atomic, anything iter() accepts is descended into depth-first, left to   *)
(* right, and anything else (None, bool, HtmlElement) is a leaf.            *)

RECURSIVE Walk(_)
RECURSIVE WalkAll(_)
Walk(node) == IF IsSequence(node) THEN WalkAll(node.items) ELSE <<node>>
WalkAll(nodes) ==
    IF nodes = <<>> THEN <<>> ELSE Walk(Head(nodes)) \o WalkAll(Tail(nodes))

\* list(collapse(iterable))
Collapse(iterable) == WalkAll(iterable)

-----------------------------------------------------------------------------
(* dicts: insertion-ordered sequences of [k, v] *)

Keys(d) == {d[i].k : i \in 1..Len(d)}
HasKey(d, k) == k \in Keys(d)
Lookup(d, k) == d[CHOOSE i \in 1..Len(d) : d[i].k = k].v

\* d[k] = v
DictSet(d, k, v) ==
    IF HasKey(d, k)
    THEN [i \in 1..Len(d) |-> IF d[i].k = k THEN [k |-> k, v |-> v] ELSE d[i]]
    ELSE Append(d, [k |-> k, v |-> v])

\* del d[k], for a key d has
DictDel(d, k) == SelectSeq(d, LAMBDA kv : kv.k # k)

\* {**a, **b}
RECURSIVE DictMerge(_, _)
DictMerge(a, b) ==
    IF b = <<>> THEN a
    ELSE DictMerge(DictSet(a, Head(b).k, Head(b).v), Tail(b))

-----------------------------------------------------------------------------
(* Serialisation *)

\* _clean_name
CleanName(k) ==
    IF StartsWithUnderscore(k)
    THEN Raise("ValueError")
    ELSE Ok(Text(ReplaceUnderscores(RStrip(k))))

\* str.join
RECURSIVE Join(_, _)
Join(sep, toks) ==
    IF toks = <<>> THEN ""
    ELSE IF Len(toks) = 1 THEN toks[1]
    ELSE toks[1] \o sep \o Join(sep, Tail(toks))

\* the list comprehension of _serialize_attrs: one token per attribute whose
\* value is neither None nor False; the first _clean_name that raises ends it
RECURSIVE AttrTokens(_)
AttrTokens(attrs) ==
    IF attrs = <<>> THEN Ok(<<>>)
    ELSE LET k == Head(attrs).k
             v == Head(attrs).v
         IN  IF v = None \/ v = False THEN AttrTokens(Tail(attrs))
             ELSE LET c == CleanName(k)
                      rest == AttrTokens(Tail(attrs))
                  IN  IF c.err # "" THEN Raise(c.err)
                      ELSE IF rest.err # "" THEN Raise(rest.err)
                      ELSE IF v = True THEN Ok(<<c.out>> \o rest.out)
                      ELSE Ok(<<c.out \o "=\"" \o v.s \o "\"">> \o rest.out)

\* _serialize_attrs
SerializeAttrs(attrs) ==
    LET toks == AttrTokens(attrs)
    IN  IF toks.err # "" THEN Raise(toks.err) ELSE Ok(Join(" ", toks.out))

\* HtmlElement._get_html_template, with the fields filled in
Template(el, attrsTruthy, tag, attrs, children) ==
    IF el.is_empty
    THEN IF attrsTruthy THEN "<" \o tag \o " " \o attrs \o "/>"
         ELSE "<" \o tag \o "/>"
    ELSE IF attrsTruthy
         THEN "<" \o tag \o " " \o attrs \o ">" \o children \o "</" \o tag \o ">"
         ELSE "<" \o tag \o ">" \o children \o "</" \o tag \o ">"

\* the first statement of HtmlElement.__str__: the template filled in with the
\* cleaned tag name, the serialised attributes d of element el and the
\* rendering of its children
Markup(el, d, children) ==
    LET tag == CleanName(el.tag)
        attrs == SerializeAttrs(d)
    IN  IF tag.err # "" THEN Raise(tag.err)
        ELSE IF attrs.err # "" THEN Raise(attrs.err)
        ELSE IF children.err # "" THEN Raise(children.err)
        ELSE Ok(Template(el, d # <<>>, tag.out, attrs.out, children.out))

\* str(v) and repr(v) of a value, _render_children and HtmlElement.__str__,
\* over the heap (E: the elements, D: the dicts)
RECURSIVE StrOf(_, _, _)
RECURSIVE ReprItems(_, _, _)
RECURSIVE RenderChildren(_, _, _)
RECURSIVE ElementStr(_, _, _)

\* repr(v): of a string without quotes or backslashes, a placeholder, a nested
\* list or tuple; HtmlElement defines no __repr__, so an element shows as
\* object.__repr__ gives it (its address left out)
ReprOf(E, D, v) ==
    CASE v.t = "str" -> Ok("'" \o v.s \o "'")
      [] v.t = "none" -> Ok("None")
      [] v.t = "true" -> Ok("True")
      [] v.t = "false" -> Ok("False")
      [] v.t = "elem" -> Ok("<htbuilder.HtmlElement object>")
      [] OTHER -> StrOf(E, D, v)

ReprItems(E, D, items) ==
    IF items = <<>> THEN Ok(<<>>)
    ELSE LET h == ReprOf(E, D, Head(items))
             r == ReprItems(E, D, Tail(items))
         IN  IF h.err # "" THEN Raise(h.err)
             ELSE IF r.err # "" THEN Raise(r.err)
             ELSE Ok(<<h.out>> \o r.out)

StrOf(E, D, v) ==
    CASE v.t = "str" -> Ok(v.s)
      [] v.t = "none" -> Ok("None")
      [] v.t = "true" -> Ok("True")
      [] v.t = "false" -> Ok("False")
      [] v.t = "elem" -> ElementStr(E, D, v.id)
      [] v.t = "list" ->
           LET r == ReprItems(E, D, v.items)
           IN  IF r.err # "" THEN Raise(r.err)
               ELSE Ok("[" \o Join(", ", r.out) \o "]")
      [] v.t = "tuple" ->
           LET r == ReprItems(E, D, v.items)
           IN  IF r.err # "" THEN Raise(r.err)
               ELSE IF Len(v.items) = 1 THEN Ok("(" \o r.out[1] \o ",)")
               ELSE Ok("(" \o Join(", ", r.out) \o ")")

\* _render_children
RenderChildren(E, D, children) ==
    IF children = <<>> THEN Ok("")
    ELSE LET c == Head(children)
             r == RenderChildren(E, D, Tail(children))
         IN  IF c \in VOIDED_CHILDREN THEN r
             ELSE LET h == StrOf(E, D, c)
                  IN  IF h.err # "" THEN Raise(h.err)
                      ELSE IF r.err # "" THEN Raise(r.err)
                      ELSE Ok(h.out \o r.out)

\* HtmlElement.__str__
ElementStr(E, D, e) ==
    LET m == Markup(E[e], D[E[e].attrs], RenderChildren(E, D, E[e].children))
    IN  IF m.err # "" THEN m
        ELSE IF E[e].tag = html THEN Ok("<!DOCTYPE html>" \o m.out)
        ELSE m

\* fragment
FragmentStr(E, D, args) == RenderChildren(E, D, args)

-----------------------------------------------------------------------------
(* The object model *)

\* HtmlElement.__init__(tag): attrs and children are left to their defaults,
\* the dict at address 0 and the empty list; the test for a void element is
\* made on the name as given
NewElement(tag) ==
    [ tag |-> Lower(tag),
      attrs |-> 0,
      children |-> <<>>,
      is_empty |-> tag \in EMPTY_ELEMENTS ]

\* HtmlElement.__call__ as it would be with the new children assigned in place
\* of the old ones instead of after them
ElementCallReplacing(E, D, e, children, attrs) ==
    IF children # <<>> /\ E[e].is_empty
    THEN [err |-> "TypeError", E |-> E, D |-> D]
    ELSE LET E1 == IF children # <<>>
                   THEN [E EXCEPT ![e].children = Collapse(children)]
                   ELSE E
         IN  IF attrs # <<>>
             THEN [ err |-> "",
                    E |-> [E1 EXCEPT ![e].attrs = e],
                    D |-> (e :> DictMerge(D[E[e].attrs], attrs)) @@ D ]
             ELSE [err |-> "", E |-> E1, D |-> D]

\* HtmlElement.__call__ as it would be without the test of _is_empty
ElementCallUnchecked(E, D, e, children, attrs) ==
    LET E1 == IF children # <<>>
              THEN [E EXCEPT ![e].children =
                                 Collapse(E[e].children \o children)]
              ELSE E
    IN  IF attrs # <<>>
        THEN [ err |-> "",
               E |-> [E1 EXCEPT ![e].attrs = e],
               D |-> (e :> DictMerge(D[E[e].attrs], attrs)) @@ D ]
        ELSE [err |-> "", E |-> E1, D |-> D]

\* HtmlElement.__call__(*children, **attrs) on element e of the heap (E, D):
\* the exception raised, or the heap after the call (which returns self)
ElementCall(E, D, e, children, attrs) ==
    IF children # <<>> /\ E[e].is_empty
    THEN [err |-> "TypeError", E |-> E, D |-> D]
    ELSE LET E1 == IF children # <<>>
                   THEN [E EXCEPT ![e].children =
                                      Collapse(E[e].children \o children)]
                   ELSE E
         IN  IF attrs # <<>>
             THEN [ err |-> "",
                    E |-> [E1 EXCEPT ![e].attrs = e],
                    D |-> (e :> DictMerge(D[E[e].attrs], attrs)) @@ D ]
             ELSE [err |-> "", E |-> E1, D |-> D]

\* the elements a sequence of values refers to, at any depth
ElemRefs(values) == {v.id : v \in {w \in Range(Collapse(values)) : w.t = "elem"}}

\* the elements reachable from element e through child sequences
RECURSIVE Reach(_, _)
Reach(E, e) ==
    {e} \cup UNION {Reach(E, c) : c \in ElemRefs(E[e].children)}

\* the last call: the operation, the element it was made on or created (0:
\* none), the tag name or key it was given, and what it raised or returned
Outcome(op, e, name, err, out) ==
    [op |-> op, e |-> e, name |-> name, err |-> err, out |-> out]

Init ==
    /\ elems = <<>>
    /\ dicts = (0 :> <<>>)
    /\ last = Outcome("import", 0, <<>>, "", "")

\* HtmlTag(tag)(*args, **kwargs)
TagCall(tag, args, kw) ==
    IF args # <<>> /\ kw # <<>>
    THEN /\ last' = Outcome("tag", 0, tag, "ValueError", "")
         /\ UNCHANGED <<elems, dicts>>
    ELSE LET e == Len(elems) + 1
             r == ElementCall(Append(elems, NewElement(tag)), dicts, e, args, kw)
         IN  IF r.err # ""
             THEN /\ last' = Outcome("tag", 0, tag, r.err, "")
                  /\ UNCHANGED <<elems, dicts>>
             ELSE /\ elems' = r.E
                  /\ dicts' = r.D
                  /\ last' = Outcome("tag", e, tag, "", "")

\* element(*args, **kwargs) on an element created earlier
Extend(e, args, kw) ==
    LET r == ElementCall(elems, dicts, e, args, kw)
    IN  /\ e \in DOMAIN elems
        /\ elems' = r.E
        /\ dicts' = r.D
        /\ last' = Outcome("call", e, <<>>, r.err, "")

\* element.name = value, for a name that does not start with an underscore
\* (one that does is stored as a field of the object by object.__setattr__)
SetAttr(e, name, value) ==
    /\ e \in DOMAIN elems
    /\ ~StartsWithUnderscore(name)
    /\ dicts' = [dicts EXCEPT ![elems[e].attrs] = DictSet(@, name, value)]
    /\ last' = Outcome("setattr", e, name, "", "")
    /\ UNCHANGED elems

\* del element.name
DelAttr(e, name) ==
    /\ e \in DOMAIN elems
    /\ IF HasKey(dicts[elems[e].attrs], name)
       THEN /\ dicts' = [dicts EXCEPT ![elems[e].attrs] = DictDel(@, name)]
            /\ last' = Outcome("delattr", e, name, "", "")
       ELSE /\ last' = Outcome("delattr", e, name, "KeyError", "")
            /\ UNCHANGED dicts
    /\ UNCHANGED elems

\* str(element)
Render(e) ==
    LET r == ElementStr(elems, dicts, e)
    IN  /\ e \in DOMAIN elems
        /\ last' = Outcome("str", e, <<>>, r.err, r.out)
        /\ UNCHANGED <<elems, dicts>>

\* fragment(*args)
Fragment(args) ==
    LET r == FragmentStr(elems, dicts, args)
    IN  /\ last' = Outcome("fragment", 0, <<>>, r.err, r.out)
        /\ UNCHANGED <<elems, dicts>>

\* _clean_name(k), called on its own
Clean(k) ==
    LET r == CleanName(k)
    IN  /\ last' = Outcome("_clean_name", 0, k, r.err, r.out)
        /\ UNCHANGED <<elems, dicts>>

-----------------------------------------------------------------------------
(* The object model under create, extend, set and remove *)

a == <<"a">>
b == <<"b">>

Tags == {div, img}

\* the positional arguments of a call: none, a string, a placeholder followed
\* by a tuple nesting a list
Args ==
    { <<>>,
      <<StrV("x")>>,
      <<None, TupleV(<<ListV(<<StrV("y")>>)>>)>> }

\* the keyword arguments of a call
Kwargs ==
    { <<>>,
      <<[k |-> a, v |-> StrV("v")]>>,
      <<[k |-> a, v |-> StrV("w")], [k |-> b, v |-> True]>> }

\* the children all elements of E hold together
RECURSIVE TotalChildren(_)
TotalChildren(E) ==
    IF E = <<>> THEN 0 ELSE Len(Head(E).children) + TotalChildren(Tail(E))

\* the calls the bounds admit: the heap holds at most MaxChildren children
\* and no element becomes its own descendant (str() of one would not return)
Admissible(E, e, args) ==
    /\ TotalChildren(E) + Len(Collapse(args)) <= MaxChildren
    /\ \A c \in ElemRefs(args) : c \in DOMAIN E /\ e \notin Reach(E, c)

AdmissibleNew(E, args) ==
    /\ Len(E) < MaxElems
    /\ TotalChildren(E) + Len(Collapse(args)) <= MaxChildren
    /\ ElemRefs(args) \subseteq DOMAIN E

Next ==
    \/ \E tag \in Tags, args \in Args, kw \in Kwargs :
            /\ AdmissibleNew(elems, args)
            /\ TagCall(tag, args, kw)
    \/ \E e \in DOMAIN elems, args \in Args, kw \in Kwargs :
            /\ Admissible(elems, e, args)
            /\ Extend(e, args, kw)

Spec == Init /\ [][Next]_vars

-----------------------------------------------------------------------------
(* Claims about the object model *)

\* the attribute map of element e of the heap (E, D)
AttrMap(E, D, e) == D[E[e].attrs]

\* new is old with the entries of kw merged in, later values overwriting
MergedInto(old, kw, new) ==
    /\ Keys(new) = Keys(old) \cup Keys(kw)
    /\ Len(new) = Cardinality(Keys(new))
    /\ \A k \in Keys(kw) : Lookup(new, k) = Lookup(kw, k)
    /\ \A k \in Keys(old) \ Keys(kw) : Lookup(new, k) = Lookup(old, k)

\* C2: every call that supplies both children and attributes fails and changes
\* nothing, on a tag constructor (with the invalid-usage error, ValueError) and
\* on an element created earlier (where any error is taken for a failure, the
\* void-element error included) alike.
C2_BothAlwaysRejected ==
    [][ /\ \A tag \in Tags, args \in Args, kw \in Kwargs :
              (args # <<>> /\ kw # <<>> /\ TagCall(tag, args, kw))
                  => (last'.err = "ValueError" /\ UNCHANGED <<elems, dicts>>)
        /\ \A e \in DOMAIN elems, args \in Args, kw \in Kwargs :
              (args # <<>> /\ kw # <<>> /\ Extend(e, args, kw))
                  => (last'.err # "" /\ UNCHANGED <<elems, dicts>>)
      ]_vars

\* C3: a successful call on an element returns that element and creates none;
\* its child sequence afterwards is the one before followed by the flattened
\* children of the call, its attribute map the one before with the call's
\* attributes merged in (later values overwriting), and no other element
\* changes; the first call, on the tag constructor, starts from no children
\* and no attributes.  So the state after any sequence of calls is the
\* accumulation of the calls.
C3_ExtendAccumulates ==
    [][ /\ \A e \in DOMAIN elems, args \in Args, kw \in Kwargs :
              (Extend(e, args, kw) /\ last'.err = "")
                  => /\ last'.e = e
                     /\ Len(elems') = Len(elems)
                     /\ elems'[e].children = elems[e].children \o Collapse(args)
                     /\ MergedInto(AttrMap(elems, dicts, e), kw,
                                   AttrMap(elems', dicts', e))
                     /\ \A f \in DOMAIN elems \ {e} :
                           /\ elems'[f] = elems[f]
                           /\ AttrMap(elems', dicts', f) = AttrMap(elems, dicts, f)
        /\ \A tag \in Tags, args \in Args, kw \in Kwargs :
              (TagCall(tag, args, kw) /\ last'.err = "")
                  => /\ last'.e = Len(elems) + 1
                     /\ elems'[last'.e].children = Collapse(args)
                     /\ MergedInto(<<>>, kw, AttrMap(elems', dicts', last'.e))
      ]_vars

\* C3 witness: an element whose children came from two calls and whose
\* attribute a was overwritten by a later call
C3_Witness ==
    /\ last.op = "call"
    /\ last.err = ""
    /\ elems[last.e].children = <<StrV("x"), None, StrV("y")>>
    /\ AttrMap(elems, dicts, last.e)
         = <<[k |-> a, v |-> StrV("v")], [k |-> b, v |-> True]>>

\* C4: an element whose _is_empty flag is set never has children: a call that
\* supplies children to one raises the void-element error (TypeError) and
\* leaves every child sequence and attribute map as it was, also when the call
\* supplies attributes too; a tag-constructor call that would create one with
\* children fails and creates nothing.
C4_VoidStaysChildless ==
    [][ /\ \A e \in DOMAIN elems' :
              elems'[e].is_empty => elems'[e].children = <<>>
        /\ \A e \in DOMAIN elems, args \in Args, kw \in Kwargs :
              (elems[e].is_empty /\ args # <<>> /\ Extend(e, args, kw))
                  => (last'.err = "TypeError" /\ UNCHANGED <<elems, dicts>>)
        /\ \A tag \in Tags, args \in Args, kw \in Kwargs :
              (NewElement(tag).is_empty /\ args # <<>> /\ TagCall(tag, args, kw))
                  => /\ last'.err # ""
                     /\ kw = <<>> => last'.err = "TypeError"
                     /\ UNCHANGED <<elems, dicts>>
      ]_vars

\* C4 witness: a void element that holds attributes has just refused children
C4_Witness ==
    /\ last.op = "call"
    /\ last.err = "TypeError"
    /\ elems[last.e].is_empty
    /\ elems[last.e].children = <<>>
    /\ AttrMap(elems, dicts, last.e) # <<>>

-----------------------------------------------------------------------------
(* Attribute access: elements created and extended, attributes set and      *)
(* deleted through element.name                                             *)

AliasArgs == {<<>>, <<StrV("x")>>}

AliasKwargs == {<<>>, <<[k |-> a, v |-> StrV("v")]>>}

NextAlias ==
    \/ \E args \in AliasArgs, kw \in AliasKwargs :
            /\ AdmissibleNew(elems, args)
            /\ TagCall(div, args, kw)
    \/ \E e \in DOMAIN elems, args \in AliasArgs, kw \in AliasKwargs :
            /\ Admissible(elems, e, args)
            /\ Extend(e, args, kw)
    \/ \E e \in DOMAIN elems : SetAttr(e, a, StrV("s"))
    \/ \E e \in DOMAIN elems : DelAttr(e, a)

SpecAlias == Init /\ [][NextAlias]_vars

\* C1: an element the tag constructor creates has only the children and the
\* attributes its creating call supplied, whatever was done before; and
\* setting or deleting an attribute of one element leaves the attribute map
\* of every other element as it was.
C1_FreshAndIsolated ==
    [][ /\ \A args \in AliasArgs, kw \in AliasKwargs :
              (TagCall(div, args, kw) /\ last'.err = "")
                  => /\ elems'[last'.e].children = Collapse(args)
                     /\ AttrMap(elems', dicts', last'.e) = kw
        /\ \A e \in DOMAIN elems :
              (SetAttr(e, a, StrV("s")) \/ DelAttr(e, a))
                  => \A f \in DOMAIN elems \ {e} :
                        AttrMap(elems', dicts', f) = AttrMap(elems, dicts, f)
      ]_vars

-----------------------------------------------------------------------------
(* Name canonicalisation: _clean_name on its own, and on the tag name and   *)
(* the attribute key of one element that is created and rendered            *)

Alphabet == {"a", "_"}

\* the names of 1 to MaxNameLen characters
Names == UNION {[1..n -> Alphabet] : n \in 1..MaxNameLen}

NextClean ==
    \/ /\ elems = <<>>
       /\ \E k \in Names : Clean(k)
    \/ /\ elems = <<>>
       /\ \E k \in Names : TagCall(k, <<>>, <<>>)
    \/ /\ elems = <<>>
       /\ \E k \in Names : TagCall(div, <<>>, <<[k |-> k, v |-> StrV("v")]>>)
    \/ \E e \in DOMAIN elems : Render(e)

SpecClean == Init /\ [][NextClean]_vars

\* how many underscores name ends with
TrailingUnderscores(name) ==
    CHOOSE n \in 0..Len(name) :
        /\ \A i \in (Len(name) - n + 1)..Len(name) : name[i] = "_"
        /\ n < Len(name) => name[Len(name) - n] # "_"

\* name without its last n characters, each underscore left made a dash
Dashed(name, n) ==
    Text([i \in 1..(Len(name) - n) |-> IF name[i] = "_" THEN "-" ELSE name[i]])

\* every trailing underscore stripped, the others made dashes
StripAll(name) == Dashed(name, TrailingUnderscores(name))

\* exactly one trailing underscore stripped if there is one, the others
\* (further trailing ones included) made dashes
StripOne(name) ==
    Dashed(name, IF name[Len(name)] = "_" THEN 1 ELSE 0)

\* what rendering the one element returns when its tag name is canonicalised
\* as T and its attribute key, if it has one, as K
RenderedWith(T, K) ==
    LET el == elems[1]
        d == AttrMap(elems, dicts, 1)
    IN  IF d = <<>>
        THEN "<" \o T \o "></" \o T \o ">"
        ELSE "<" \o T \o " " \o K \o "=\"v\"></" \o T \o ">"

\* the canonical form of name: with every trailing underscore stripped (all),
\* or with exactly one stripped
Canonical(name, all) == IF all THEN StripAll(name) ELSE StripOne(name)

\* the last call computed the canonical form Canonical gives: _clean_name
\* returns it for a name that does not start with an underscore, and
\* rendering shows it for the tag name and for the attribute key
CanonicalisedAs(all) ==
    /\ (last.op = "_clean_name" /\ ~StartsWithUnderscore(last.name))
          => (last.err = "" /\ last.out = Canonical(last.name, all))
    /\ (last.op = "str" /\ last.err = "")
          => LET d == AttrMap(elems, dicts, 1)
             IN  last.out = RenderedWith(Canonical(elems[1].tag, all),
                                IF d = <<>> THEN "" ELSE Canonical(d[1].k, all))

\* C7 as stated: exactly one trailing underscore is stripped, and every
\* underscore that remains, further trailing ones included, becomes a dash, in
\* tag names and attribute keys alike.
C7_OneUnderscoreStripped == CanonicalisedAs(FALSE)

\* C7 as amended: every trailing underscore is stripped, and every underscore
\* that remains becomes a dash, in tag names and attribute keys alike.
C7_TrailingUnderscoresStripped == CanonicalisedAs(TRUE)

\* C7 witness: a_a__ was canonicalised
C7_Witness ==
    /\ last.op = "_clean_name"
    /\ last.name = a_a__
    /\ last.out = "a-a"

-----------------------------------------------------------------------------
(* Rendering: elements created with attributes or children, given children  *)
(* (strings, placeholders, other elements), rendered with str(), and        *)
(* fragment() called on what was built                                      *)

id == <<"i", "d">>
foo == <<"f", "o", "o">>
bar == <<"b", "a", "r">>
hidden == <<"h", "i", "d", "d", "e", "n">>
under_k == <<"_", "k">>

RenderTags == {div, img, html, under_x}

RenderKwargs ==
    { <<>>,
      <<[k |-> hidden, v |-> None]>>,
      <<[k |-> foo, v |-> True], [k |-> bar, v |-> False],
        [k |-> id, v |-> StrV("c")]>>,
      <<[k |-> under_k, v |-> False]>>,
      <<[k |-> under_k, v |-> StrV("v")]>> }

\* children: a placeholder and a string, or an element of the heap
RenderArgs(E) ==
    {<<None, StrV("x")>>} \cup {<<ElemV(i)>> : i \in DOMAIN E}

\* the arguments of fragment: leaves only, or a list or tuple among them
\* (lists and tuples that hold no element)
FragmentArgs(E) ==
    { <<StrV("x"), None, StrV("y")>>,
      <<StrV("x"), ListV(<<None, StrV("y")>>)>>,
      <<TupleV(<<False>>)>> }
        \cup {<<ElemV(i), True>> : i \in DOMAIN E}

NextRender ==
    \/ \E tag \in RenderTags, kw \in RenderKwargs :
            /\ AdmissibleNew(elems, <<>>)
            /\ TagCall(tag, <<>>, kw)
    \/ \E e \in DOMAIN elems, args \in RenderArgs(elems) :
            /\ Admissible(elems, e, args)
            /\ Extend(e, args, <<>>)
    \/ \E e \in DOMAIN elems : Render(e)
    \/ \E args \in FragmentArgs(elems) : Fragment(args)

SpecRender == Init /\ [][NextRender]_vars

\* C5: fragment(args) flattens its arguments as a call on an element does and
\* renders the leaves in order, placeholders skipped at any depth: it returns
\* (or raises) what rendering the children of a non-void element that was
\* given the same arguments does.
C5_FragmentFlattens ==
    [][ \A args \in FragmentArgs(elems) :
            Fragment(args)
                => LET inner == RenderChildren(elems, dicts, Collapse(args))
                   IN  last'.err = inner.err /\ last'.out = inner.out
      ]_vars

\* an attribute map without the entries whose value is None or False
Visible(d) == SelectSeq(d, LAMBDA kv : kv.v # None /\ kv.v # False)

\* C8: an attribute whose value is False or None is left out altogether:
\* rendering an element returns the string that rendering it returns once
\* those attributes are removed from the attribute maps.
C8_SkippedAttributesLeaveNoTrace ==
    (last.op = "str" /\ last.err = "")
        => last.out
             = ElementStr(elems, [x \in DOMAIN dicts |-> Visible(dicts[x])],
                          last.e).out

\* C9: rendering an element whose tag name, or any key of whose attribute map,
\* starts with an underscore raises the invalid-name error (ValueError),
\* whatever the value of that attribute, and returns no markup.
C9_UnderscorePrefixAlwaysRaises ==
    (/\ last.op = "str"
     /\ \/ StartsWithUnderscore(elems[last.e].tag)
        \/ \E k \in Keys(AttrMap(elems, dicts, last.e)) : StartsWithUnderscore(k))
        => (last.err = "ValueError" /\ last.out = "")

\* markup with no doctype anywhere: __str__'s first statement applied to an
\* element and, below it, to the elements among its children
RECURSIVE BareStr(_)
RECURSIVE BareChildren(_)
BareStr(e) ==
    Markup(elems[e], AttrMap(elems, dicts, e), BareChildren(elems[e].children))
BareChildren(children) ==
    IF children = <<>> THEN Ok("")
    ELSE LET c == Head(children)
             r == BareChildren(Tail(children))
         IN  IF c \in VOIDED_CHILDREN THEN r
             ELSE LET h == IF c.t = "elem" THEN BareStr(c.id)
                           ELSE StrOf(elems, dicts, c)
                  IN  IF h.err # "" THEN Raise(h.err)
                      ELSE IF r.err # "" THEN Raise(r.err)
                      ELSE Ok(h.out \o r.out)

\* C10: the rendered string starts with <!DOCTYPE html> exactly if the element
\* rendered has the tag html, and holds it nowhere else: what follows is the
\* markup of the tree with no doctype in it, html elements among the
\* descendants included.
C10_DoctypeAtRootOnly ==
    (last.op = "str" /\ last.err = "")
        => last.out
             = (IF elems[last.e].tag = html THEN "<!DOCTYPE html>" ELSE "")
                 \o BareStr(last.e).out

-----------------------------------------------------------------------------
(* Void elements: tag names in lower, upper and mixed case, elements        *)
(* created with or without children, given children, and rendered           *)

VoidTags == {div, img, IMG, Img}

VoidArgs == {<<>>, <<StrV("x")>>}

NextVoid ==
    \/ \E tag \in VoidTags, args \in VoidArgs :
            /\ AdmissibleNew(elems, args)
            /\ TagCall(tag, args, <<>>)
    \/ \E e \in DOMAIN elems, args \in VoidArgs :
            /\ Admissible(elems, e, args)
            /\ Extend(e, args, <<>>)
    \/ \E e \in DOMAIN elems : Render(e)

SpecVoid == Init /\ [][NextVoid]_vars

\* C6: an element is void (_is_empty) exactly if its stored tag, the
\* lower-cased name it was created with, is in the void-tag set; so a void
\* name in any case gives an element that has no children and renders
\* self-closing.
C6_VoidIffLowerCasedNameIsVoid ==
    \A e \in DOMAIN elems :
        /\ elems[e].is_empty <=> elems[e].tag \in EMPTY_ELEMENTS
        /\ elems[e].tag \in EMPTY_ELEMENTS => elems[e].children = <<>>
        /\ (elems[e].tag = img /\ last.op = "str" /\ last.e = e)
              => last.out = "<img/>"

=============================================================================
